---- MODULE Spec2Model ----
(***************************************************************************)
(* A model of the movie-link search of src/index.ts: the pure helpers      *)
(* (normalizeUrl, uniqueLinks, extractLinks, detectMaxPages), the fetch    *)
(* with its timeout (fetchWithTimeout, fetchPage) and the year/page/batch  *)
(* loop of searchMovieLinks.                                               *)
(*                                                                         *)
(* Strings are sequences of one-character strings, so that startsWith,     *)
(* includes, toLowerCase, trim and split are computed character by         *)
(* character, as the JavaScript runtime computes them.                     *)
(***************************************************************************)
EXTENDS Integers, Sequences, FiniteSets, TLC

\* ------------------------------------------------------------------------
\* Strings
\* ------------------------------------------------------------------------

\* A value that may be absent (null, undefined, a missing parameter) is a
\* sequence of at most one element: NoValue, or Some(x).
NoValue == <<>>
Some(x) == <<x>>

UpperChars ==
    << "A", "B", "C", "D", "E", "F", "G", "H", "I", "J", "K", "L", "M",
       "N", "O", "P", "Q", "R", "S", "T", "U", "V", "W", "X", "Y", "Z" >>

LowerChars ==
    << "a", "b", "c", "d", "e", "f", "g", "h", "i", "j", "k", "l", "m",
       "n", "o", "p", "q", "r", "s", "t", "u", "v", "w", "x", "y", "z" >>

\* String.prototype.toLowerCase on one character.
LowerChar(c) ==
    IF \E i \in 1..Len(UpperChars) : UpperChars[i] = c
    THEN LowerChars[CHOOSE i \in 1..Len(UpperChars) : UpperChars[i] = c]
    ELSE c

ToLowerCase(s) == [i \in 1..Len(s) |-> LowerChar(s[i])]

\* The characters \s matches.
IsSpace(c) == c \in {" ", "\t", "\n"}

IsDigit(c) == c \in {"0", "1", "2", "3", "4", "5", "6", "7", "8", "9"}

DigitValue(c) ==
    CASE c = "0" -> 0 [] c = "1" -> 1 [] c = "2" -> 2 [] c = "3" -> 3
      [] c = "4" -> 4 [] c = "5" -> 5 [] c = "6" -> 6 [] c = "7" -> 7
      [] c = "8" -> 8 [] c = "9" -> 9

\* String.prototype.trim.
RECURSIVE TrimStart(_)
TrimStart(s) ==
    IF s # <<>> /\ IsSpace(Head(s)) THEN TrimStart(Tail(s)) ELSE s

RECURSIVE TrimEnd(_)
TrimEnd(s) ==
    IF s # <<>> /\ IsSpace(s[Len(s)]) THEN TrimEnd(SubSeq(s, 1, Len(s) - 1)) ELSE s

Trim(s) == TrimEnd(TrimStart(s))

\* String.prototype.startsWith.
StartsWith(s, p) == Len(p) <= Len(s) /\ SubSeq(s, 1, Len(p)) = p

\* String.prototype.includes: the empty string is included in every string.
Includes(s, w) ==
    \E i \in 0..(Len(s) - Len(w)) : SubSeq(s, i + 1, i + Len(w)) = w

\* String.prototype.split(/\s+/): the pieces between the maximal runs of
\* white space. The empty string splits into one empty piece, and a string
\* that starts (ends) with white space has an empty first (last) piece.
RECURSIVE SplitFrom(_, _, _)
SplitFrom(s, i, piece) ==
    IF i > Len(s) THEN <<piece>>
    ELSE IF IsSpace(s[i])
         THEN IF i > 1 /\ IsSpace(s[i - 1])
              THEN SplitFrom(s, i + 1, piece)
              ELSE <<piece>> \o SplitFrom(s, i + 1, <<>>)
         ELSE SplitFrom(s, i + 1, Append(piece, s[i]))

SplitWhitespace(s) == SplitFrom(s, 1, <<>>)

\* parseInt(digits, 10) of a non-empty run of decimal digits.
RECURSIVE ParseInt(_)
ParseInt(ds) ==
    IF ds = <<>> THEN 0
    ELSE 10 * ParseInt(SubSeq(ds, 1, Len(ds) - 1)) + DigitValue(ds[Len(ds)])

\* ------------------------------------------------------------------------
\* URLs
\* ------------------------------------------------------------------------

\* A parsed URL: scheme, userinfo, host, port and path (with its query), each
\* a string.
MkUrl(scheme, user, host, port, path) ==
    [scheme |-> scheme, user |-> user, host |-> host, port |-> port, path |-> path]

\* An href attribute is [kind, url, ref]:
\*   NoHref        no attribute, or an empty one
\*   AbsHref(u)    the absolute URL u
\*   RelHref(s)    the reference s, which starts with "/" or with "?"
\*   BadHref(s)    the text s, which the URL parser rejects
NoUrl == MkUrl(<<>>, <<>>, <<>>, <<>>, <<>>)
NoHref == [kind |-> "none", url |-> NoUrl, ref |-> <<>>]
AbsHref(u) == [kind |-> "abs", url |-> u, ref |-> <<>>]
RelHref(s) == [kind |-> "rel", url |-> NoUrl, ref |-> s]
BadHref(s) == [kind |-> "bad", url |-> NoUrl, ref |-> s]

\* The port the parser drops because it is the scheme's default.
DefaultPort(scheme) ==
    IF scheme = <<"h", "t", "t", "p">> THEN <<"8", "0">> ELSE <<>>

\* URL.prototype.origin: scheme, host and the port unless it is the default.
UrlOrigin(u) ==
    u.scheme \o <<":", "/", "/">> \o u.host
      \o (IF u.port = <<>> \/ u.port = DefaultPort(u.scheme) THEN <<>> ELSE <<":">> \o u.port)

\* URL.prototype.toString: the serialisation of the parsed URL.
UrlToString(u) ==
    u.scheme \o <<":", "/", "/">>
      \o (IF u.user = <<>> THEN <<>> ELSE u.user \o <<"@">>)
      \o u.host
      \o (IF u.port = <<>> \/ u.port = DefaultPort(u.scheme) THEN <<>> ELSE <<":">> \o u.port)
      \o (IF u.path = <<>> THEN <<"/">> ELSE u.path)

\* The parser lower-cases the scheme and the host and keeps the rest.
ParseUrl(u) ==
    MkUrl(ToLowerCase(u.scheme), u.user, ToLowerCase(u.host), u.port, u.path)

\* The text of an href attribute, as the regular expression of
\* detectMaxPages reads it.
HrefText(h) ==
    CASE h.kind = "none" -> <<>>
      [] h.kind = "abs" ->
            h.url.scheme \o <<":", "/", "/">>
              \o (IF h.url.user = <<>> THEN <<>> ELSE h.url.user \o <<"@">>)
              \o h.url.host
              \o (IF h.url.port = <<>> THEN <<>> ELSE <<":">> \o h.url.port)
              \o h.url.path
      [] h.kind = "rel" -> h.ref
      [] h.kind = "bad" -> h.ref

\* new URL(href, baseUrl): NoValue where the constructor throws.
ResolveUrl(h, baseUrl) ==
    CASE h.kind = "abs" -> Some(ParseUrl(h.url))
      [] h.kind = "rel" ->
            LET b == ParseUrl(baseUrl)
            IN  IF h.ref # <<>> /\ Head(h.ref) = "?"
                THEN Some(MkUrl(b.scheme, b.user, b.host, b.port,
                                (IF b.path = <<>> THEN <<"/">> ELSE b.path) \o h.ref))
                ELSE Some(MkUrl(b.scheme, b.user, b.host, b.port, h.ref))
      [] OTHER -> NoValue

\* normalizeUrl (index.ts 39-46): the resolved URL as a string, or null.
normalizeUrl(baseUrl, h) ==
    LET u == ResolveUrl(h, baseUrl)
    IN  IF u = NoValue THEN NoValue ELSE Some(UrlToString(u[1]))

\* ------------------------------------------------------------------------
\* uniqueLinks (index.ts 48-59)
\* ------------------------------------------------------------------------

\* One iteration of the loop for links[i], with the set of urls seen so far.
RECURSIVE UniqueFrom(_, _, _, _)
UniqueFrom(links, i, seen, result) ==
    IF i > Len(links) THEN result
    ELSE IF links[i].url \notin seen
         THEN UniqueFrom(links, i + 1, seen \cup {links[i].url}, Append(result, links[i]))
         ELSE UniqueFrom(links, i + 1, seen, result)

\* A variant that keeps the last occurrence of a url instead of the first.
RECURSIVE KeepLastFrom(_, _)
KeepLastFrom(links, i) ==
    IF i > Len(links) THEN <<>>
    ELSE (IF \E j \in (i + 1)..Len(links) : links[j].url = links[i].url
          THEN <<>> ELSE <<links[i]>>) \o KeepLastFrom(links, i + 1)

uniqueLinksKeepingLast(links) == KeepLastFrom(links, 1)

\* A variant that removes the duplicates in place and, having removed one,
\* steps over the element that takes its place.
RECURSIVE RemoveFrom(_, _, _)
RemoveFrom(links, i, seen) ==
    IF i > Len(links) THEN links
    ELSE IF links[i].url \in seen
         THEN RemoveFrom(SubSeq(links, 1, i - 1) \o SubSeq(links, i + 1, Len(links)),
                         i + 1, seen)
         ELSE RemoveFrom(links, i + 1, seen \cup {links[i].url})

uniqueLinksInPlace(links) == RemoveFrom(links, 1, {})

uniqueLinks(links) == UniqueFrom(links, 1, {}, <<>>)

\* ------------------------------------------------------------------------
\* extractLinks (index.ts 63-106) and detectMaxPages (index.ts 109-125)
\* ------------------------------------------------------------------------

\* An HTML document is [len |-> the length of its text, anchors |-> its <a>
\* elements in document order], an anchor [href, text, inDivF]: inDivF says
\* that the selector "div.f a" selects it.

\* queryWords (index.ts 67-68).
QueryWords(query) == SplitWhitespace(Trim(ToLowerCase(query)))

\* A variant with some in place of every.
SomeWordIn(words, s) == \E i \in 1..Len(words) : Includes(s, words[i])

\* words.every(w => s.includes(w))
EveryWordIn(words, s) == \A i \in 1..Len(words) : Includes(s, words[i])

\* The same-origin filter of line 82.
FromBaseOrigin(lowerUrl, baseOrigin) == StartsWith(lowerUrl, baseOrigin)

\* The slug filters of lines 87 and 92.
MoviesMarker == <<"-", "m", "o", "v", "i", "e", "s", "/">>
MovieMarker == <<"-", "m", "o", "v", "i", "e", "/">>
SeriesMarker == <<"-", "s", "e", "r", "i", "e", "s", "/">>

\* A variant without the test of line 92.
SlugNotCategory(lowerUrl) == ~Includes(lowerUrl, MoviesMarker)

SlugAccepted(lowerUrl) ==
    /\ ~Includes(lowerUrl, MoviesMarker)
    /\ Includes(lowerUrl, MovieMarker) \/ Includes(lowerUrl, SeriesMarker)

\* The body of the each-callback (lines 71-103) for one selected anchor: the
\* links it pushes, one or (where it returns early) none.
AnchorLink(a, baseUrl, query) ==
    LET text == Trim(a.text)
        url == normalizeUrl(baseUrl, a.href)
        baseOrigin == ToLowerCase(UrlOrigin(ParseUrl(baseUrl)))
    IN  IF a.href.kind = "none" \/ text = <<>> THEN <<>>
        ELSE IF url = NoValue THEN <<>>
        ELSE LET lowerUrl == ToLowerCase(url[1])
                 lowerText == ToLowerCase(text)
                 words == QueryWords(query)
             IN  IF ~FromBaseOrigin(lowerUrl, baseOrigin) THEN <<>>
                 ELSE IF ~SlugAccepted(lowerUrl) THEN <<>>
                 ELSE IF EveryWordIn(words, lowerText) \/ EveryWordIn(words, lowerUrl)
                      THEN <<[title |-> text, url |-> url[1]]>>
                      ELSE <<>>

\* The each-loop over the anchors that "div.f a" selects, in document order.
RECURSIVE CollectLinks(_, _, _, _)
CollectLinks(anchors, i, baseUrl, query) ==
    IF i > Len(anchors) THEN <<>>
    ELSE (IF anchors[i].inDivF THEN AnchorLink(anchors[i], baseUrl, query) ELSE <<>>)
           \o CollectLinks(anchors, i + 1, baseUrl, query)

extractLinks(html, baseUrl, query) ==
    uniqueLinks(CollectLinks(html.anchors, 1, baseUrl, query))

\* href.match(/[?&]page=(\d+)/): the digits of the first match, or none.
PageEq == <<"p", "a", "g", "e", "=">>

MatchesAt(s, i) ==
    /\ i + 6 <= Len(s)
    /\ s[i] \in {"?", "&"}
    /\ SubSeq(s, i + 1, i + 5) = PageEq
    /\ IsDigit(s[i + 6])

RECURSIVE DigitRun(_, _)
DigitRun(s, i) ==
    IF i <= Len(s) /\ IsDigit(s[i]) THEN <<s[i]>> \o DigitRun(s, i + 1) ELSE <<>>

MatchPageParam(s) ==
    IF \E i \in 1..Len(s) : MatchesAt(s, i)
    THEN LET i == CHOOSE j \in 1..Len(s) :
                     MatchesAt(s, j) /\ \A k \in 1..(j - 1) : ~MatchesAt(s, k)
         IN  DigitRun(s, i + 6)
    ELSE <<>>

RECURSIVE MaxPageFrom(_, _, _)
MaxPageFrom(anchors, i, maxPage) ==
    IF i > Len(anchors) THEN maxPage
    ELSE LET m == IF anchors[i].href.kind = "none" THEN <<>>
                  ELSE MatchPageParam(HrefText(anchors[i].href))
         IN  MaxPageFrom(anchors, i + 1,
                         IF m # <<>> /\ ParseInt(m) > maxPage THEN ParseInt(m) ELSE maxPage)

detectMaxPages(html) == MaxPageFrom(html.anchors, 1, 1)

\* ------------------------------------------------------------------------
\* fetchPage (index.ts 127-133), seen from its caller
\* ------------------------------------------------------------------------

\* What the network does with one request that settles is [net, ok, body]:
\*   net = "error"      the transport fails (DNS, connection, TLS)
\*   net = "timeout"    the timer aborts the request before the headers
\*   net = "response"   a response with response.ok = ok and the text body

\* The shortest body fetchPage accepts (line 131).
MinBodyLength == 200

\* fetchPage: the body, null, or an exception out of fetchWithTimeout.
fetchPage(resp) ==
    IF resp.net # "response" THEN [threw |-> TRUE, value |-> NoValue]
    ELSE IF ~resp.ok THEN [threw |-> FALSE, value |-> NoValue]
    ELSE IF resp.body.len = 0 \/ resp.body.len < MinBodyLength
         THEN [threw |-> FALSE, value |-> NoValue]
         ELSE [threw |-> FALSE, value |-> Some(resp.body)]

\* A variant without the catch.
CaughtNothing(r) == r

\* .catch(() => null) on a call of fetchPage (lines 162 and 186).
Caught(r) == IF r.threw THEN [threw |-> FALSE, value |-> NoValue] ELSE r

\* fetchPage(url).catch(() => null) (lines 162 and 186).
FetchPageOrNull(resp) ==
    LET r == fetchPage(resp) IN IF r.threw THEN NoValue ELSE r.value

\* Whether awaiting fetchPage(url).catch(() => null) throws.
FetchPageThrows(resp) == Caught(fetchPage(resp)).threw

\* ------------------------------------------------------------------------
\* The site: the documents and responses the searches are run against
\* ------------------------------------------------------------------------

Http == <<"h", "t", "t", "p">>

\* params.baseUrl and params.query of the modelled invocation.
BaseUrl == MkUrl(Http, <<>>, <<"m", "k">>, <<>>, <<>>)
Query == <<"k", "a", "i">>

Letters == <<"a", "b", "c", "d", "e", "f", "g", "h", "i", "j", "k", "l">>

\* The detail page of movie n: /<n>-movie/
MoviePath(n) == <<"/", Letters[n]>> \o MovieMarker

Anchor(href, text, inDivF) == [href |-> href, text |-> text, inDivF |-> inDivF]

MovieAnchor(n, text) == Anchor(RelHref(MoviePath(n)), text, TRUE)

TitleA == <<" ", "K", "a", "i", " ">>
TitleB == <<"K", "A", "I">>

\* A listing with eleven movies, one more than the default maxResults.
HitsA == [n \in 1..11 |-> MovieAnchor(n, TitleA)]

\* A listing that repeats movie 1 under another title and adds movie 12,
\* among anchors the filters drop: a category page, another site, an anchor
\* outside the wrapper, one that does not match the query and one whose
\* href is no URL.
HitsB ==
    << Anchor(RelHref(<<"/", "k", "a", "i">> \o MoviesMarker), TitleB, TRUE),
       MovieAnchor(1, TitleB),
       Anchor(AbsHref(MkUrl(Http, <<>>, <<"x">>, <<>>, MoviePath(2))), TitleB, TRUE),
       Anchor(RelHref(MoviePath(3)), TitleB, FALSE),
       MovieAnchor(12, TitleB),
       Anchor(RelHref(<<"/", "x">> \o MovieMarker), <<"x">>, TRUE),
       Anchor(BadHref(<<"h", "t", "t", "p", ":", "/", "/", "[">>), TitleB, TRUE) >>

\* The pagination links of a listing whose last page is the number `digits`.
Pager(digits) ==
    << Anchor(RelHref(<<"?">> \o PageEq \o <<"2">>), <<"2">>, FALSE),
       Anchor(RelHref(<<"?", "x", "=", "1", "&">> \o PageEq \o digits),
              <<"l", "a", "s", "t">>, FALSE) >>

Pagers ==
    { <<>>, Pager(<<"3">>), Pager(<<"5", "1">>), Pager(<<"9", "9", "9", "9">>) }

Doc(len, anchors) == [len |-> len, anchors |-> anchors]

\* The bodies that are long enough.
UsableDocs ==
    { Doc(MinBodyLength, hits \o pager) : hits \in {<<>>, HitsA, HitsB}, pager \in Pagers }

\* A listing page with nothing that matches and no pagination.
PlainDoc == Doc(MinBodyLength, <<>>)

FailureResponses ==
    { [net |-> "error", ok |-> FALSE, body |-> Doc(0, <<>>)],
      [net |-> "timeout", ok |-> FALSE, body |-> Doc(0, <<>>)],
      [net |-> "response", ok |-> FALSE, body |-> Doc(MinBodyLength, HitsA)],
      [net |-> "response", ok |-> TRUE, body |-> Doc(0, <<>>)],
      [net |-> "response", ok |-> TRUE, body |-> Doc(MinBodyLength - 1, HitsA)] }

Responses ==
    FailureResponses \cup { [net |-> "response", ok |-> TRUE, body |-> d] : d \in UsableDocs }

\* Pages 1..MaxVaryingPage of a year may answer with any response; the pages
\* beyond answer with the plain listing.
MaxVaryingPage == 3

\* The number of responses of one invocation that carry matching links.
MaxHits == 2

\* A variant without the null check of line 187.
PageLinksOfAnyBody(resp) == extractLinks(resp.body, BaseUrl, Query)

\* The links the caller gets out of a response (lines 186-188).
PageLinks(resp) ==
    LET h == FetchPageOrNull(resp)
    IN  IF h = NoValue THEN <<>> ELSE extractLinks(h[1], BaseUrl, Query)

\* A response with what fetchPage and the caller make of it.
Outcome(resp) ==
    [resp |-> resp, html |-> FetchPageOrNull(resp), links |-> PageLinks(resp),
     threw |-> FetchPageThrows(resp)]

AllOutcomes == { Outcome(r) : r \in Responses }

PlainOutcomes == { Outcome([net |-> "response", ok |-> TRUE, body |-> PlainDoc]) }

OutcomesOf(page) == IF page <= MaxVaryingPage THEN AllOutcomes ELSE PlainOutcomes

\* What the promise of one page of a batch can settle with (lines 186-188):
\* whether fetchPage gave null or threw, the links, and whether the promise
\* is rejected.
Settled(o) == [failed |-> o.html = NoValue, links |-> o.links, threw |-> o.threw]

AllSettled == { Settled(o) : o \in AllOutcomes }

PlainSettled == { Settled(o) : o \in PlainOutcomes }

SettledOf(page) == IF page <= MaxVaryingPage THEN AllSettled ELSE PlainSettled

\* ------------------------------------------------------------------------
\* searchMovieLinks (index.ts 137-203)
\* ------------------------------------------------------------------------

YEAR_RANGE == 7
MAX_PAGES_ABSOLUTE_LIMIT == 50
BATCH_SIZE == 10
DefaultMaxResults == 10

\* new Date().getFullYear() at the time of the call.
CurrentYear == 2026

\* The values the input schema accepts for maxResults (line 13).
MaxResultsInputs == {NoValue} \cup { Some(n) : n \in 1..50 }

Min(a, b) == IF a < b THEN a ELSE b

\* Array.prototype.slice(from, to), both counted from 0.
Slice(s, from, to) == SubSeq(s, from + 1, Min(to, Len(s)))

\* yearsToScan (lines 145-148).
YearsToScan(currentYear) ==
    <<currentYear + 1>> \o [i \in 1..YEAR_RANGE |-> currentYear - (i - 1)]

\* The listing URLs of lines 161 and 177, kept as the year and page they name.
PageUrl(year, page) == [year |-> year, page |-> page]

\* A variant without the clamp.
ClampNothing(detected) == detected

\* The clamp of line 172.
ClampPages(detected) ==
    IF detected > MAX_PAGES_ABSOLUTE_LIMIT THEN MAX_PAGES_ABSOLUTE_LIMIT ELSE detected

\* pageUrls (lines 175-178).
PageUrls(year, maxPages) == [j \in 1..(maxPages - 1) |-> PageUrl(year, j + 1)]

\* A variant that fetches all the remaining pages at once.
BatchOfAllRemaining(urls, i) == Slice(urls, i, Len(urls))

\* batch (line 183).
BatchOf(urls, i) == Slice(urls, i, i + BATCH_SIZE)

\* A variant that collects the values in the order in which they arrive.
StoreAtArrival(results, k, entry) ==
    LET first == CHOOSE j \in 1..Len(results) :
                    results[j] = NoValue /\ \A h \in 1..(j - 1) : results[h] # NoValue
    IN  [results EXCEPT ![first] = Some(entry)]

\* Promise.all keeps the value of the k-th promise at index k of results.
StoreResult(results, k, entry) == [results EXCEPT ![k] = Some(entry)]

\* for (const l of results) allLinks = allLinks.concat(l) (line 191).
RECURSIVE ConcatResults(_, _, _)
ConcatResults(acc, results, k) ==
    IF k > Len(results) THEN acc
    ELSE ConcatResults(acc \o results[k][1].links, results, k + 1)

\* maxResults (line 140).
MaxResultsOf(arg) == IF arg = NoValue THEN DefaultMaxResults ELSE arg[1]

\* A variant without the slice of line 202.
FinalResultUnsliced(links, maxResults) == uniqueLinks(links)

\* The value returned (lines 200-202).
FinalResult(links, maxResults) == Slice(uniqueLinks(links), 0, maxResults)

VARIABLES
    pc,           \* where the call is: idle, page1, gotPage1, batch, done
    maxResultsArg, \* params.maxResults
    yearsToScan,
    yi,           \* the index in yearsToScan of `year`
    allLinks,
    html1,
    maxPages,
    bi,           \* the loop variable i of the batch loop
    batch,
    results,      \* per promise of the batch: NoValue while pending
    inflight,     \* the URLs whose fetchPage call has not settled
    issued,       \* the page numbers fetchPage was called with for `year`
    failed,       \* the indexes of the batch whose fetchPage gave null or threw
    hitsLeft,
    returned      \* the value the call returned

orchVars ==
    <<pc, maxResultsArg, yearsToScan, yi, allLinks, html1, maxPages, bi,
      batch, results, inflight, issued, failed, hitsLeft, returned>>

\* pageUrls of the current year (lines 175-178): the pages 2..maxPages.
pageUrls == IF yi = 0 THEN <<>> ELSE PageUrls(yearsToScan[yi], maxPages)

\* One call of fetchPage, step by step (fetchWithTimeout, lines 23-37, and
\* fetchPage, lines 127-133).
VARIABLES
    fpc,      \* idle, awaitFetch, awaitText, returned, threw
    furl,     \* the URL fetched
    fplan,    \* what the server does with the request
    timer,    \* the timer of setTimeout: unset, armed, cleared
    aborted,  \* controller.signal.aborted
    fvalue    \* the value fetchPage returned

fetchVars == <<fpc, furl, fplan, timer, aborted, fvalue>>

\* uniqueLinks applied to one sequence of links.
VARIABLES ulPc, ulIn, ulOut

uniqVars == <<ulPc, ulIn, ulOut>>

\* extractLinks applied to one document.
VARIABLES exPc, exHtml, exBase, exQuery, exOut

extVars == <<exPc, exHtml, exBase, exQuery, exOut>>

\* The per-page link lists merged by searchMovieLinks and the two results
\* compared: per-page uniqueLinks followed by the global one, and the global
\* one alone.
VARIABLES mgPc, mgPages, mgMax, mgCode, mgOnce

mergeVars == <<mgPc, mgPages, mgMax, mgCode, mgOnce>>

\* The locals of the search-endpoint variant of searchMovieLinks: its
\* position, the index of the candidate of the current iteration, maxResults,
\* html, the urls handed to trySearch so far and the value returned.
VARIABLES tsPc, tsIndex, tsMax, tsHtml, tsFetched, tsReturned

tsVars == <<tsPc, tsIndex, tsMax, tsHtml, tsFetched, tsReturned>>

vars == <<orchVars, fetchVars, uniqVars, extVars, mergeVars, tsVars>>

FetchIdle ==
    /\ fpc = "idle"
    /\ furl = PageUrl(0, 0)
    /\ fplan = [net |-> "silent", ok |-> FALSE, body |-> Doc(0, <<>>), bodyArrives |-> FALSE]
    /\ timer = "unset"
    /\ aborted = FALSE
    /\ fvalue = NoValue

UniqIdle ==
    /\ ulPc = "idle"
    /\ ulIn = <<>>
    /\ ulOut = <<>>

ExtIdle ==
    /\ exPc = "idle"
    /\ exHtml = Doc(0, <<>>)
    /\ exBase = BaseUrl
    /\ exQuery = <<>>
    /\ exOut = <<>>

MergeIdle ==
    /\ mgPc = "idle"
    /\ mgPages = <<>>
    /\ mgMax = DefaultMaxResults
    /\ mgCode = <<>>
    /\ mgOnce = <<>>

TsIdle ==
    /\ tsPc = "idle"
    /\ tsIndex = 0
    /\ tsMax = DefaultMaxResults
    /\ tsHtml = NoValue
    /\ tsFetched = <<>>
    /\ tsReturned = NoValue

OrchInit ==
    /\ pc = "idle"
    /\ maxResultsArg = NoValue
    /\ yearsToScan = <<>>
    /\ yi = 0
    /\ allLinks = <<>>
    /\ html1 = NoValue
    /\ maxPages = 1
    /\ bi = 0
    /\ batch = <<>>
    /\ results = <<>>
    /\ inflight = {}
    /\ issued = {}
    /\ failed = {}
    /\ hitsLeft = MaxHits
    /\ returned = NoValue

\* The call of fetchPage for page 1 of year number j (lines 161-162).
FetchPage1(years, j) ==
    /\ pc' = "page1"
    /\ yi' = j
    /\ inflight' = {PageUrl(years[j], 1)}
    /\ issued' = {1}
    /\ html1' = NoValue
    /\ maxPages' = 1
    /\ bi' = 0
    /\ batch' = <<>>
    /\ results' = <<>>
    /\ failed' = {}

\* The calls of fetchPage for the batch that starts at index i (lines 183-190).
FetchBatch(urls, i) ==
    LET b == BatchOf(urls, i)
    IN  /\ pc' = "batch"
        /\ bi' = i
        /\ batch' = b
        /\ results' = [k \in 1..Len(b) |-> NoValue]
        /\ inflight' = { b[k] : k \in 1..Len(b) }
        /\ issued' = issued \cup { b[k].page : k \in 1..Len(b) }
        /\ failed' = {}

\* The end of an iteration of the year loop with `links` accumulated: the
\* next year's first page, or after the last year lines 199-202. maxResults
\* is read at line 140 and used by the final slice alone; it is drawn here.
NextYearOrReturn(links) ==
    IF yi < Len(yearsToScan)
    THEN /\ FetchPage1(yearsToScan, yi + 1)
         /\ allLinks' = links
         /\ UNCHANGED <<maxResultsArg, returned>>
    ELSE /\ pc' = "done"
         /\ \E arg \in MaxResultsInputs :
              /\ maxResultsArg' = arg
              /\ returned' = Some(FinalResult(links, MaxResultsOf(arg)))
         /\ allLinks' = uniqueLinks(links)
         /\ html1' = NoValue
         /\ maxPages' = 1
         /\ bi' = 0
         /\ batch' = <<>>
         /\ results' = <<>>
         /\ inflight' = {}
         /\ failed' = {}
         /\ UNCHANGED <<yi, issued>>

\* The call starts: lines 138-162 up to the first await.
Start ==
    /\ pc = "idle"
    /\ yearsToScan' = YearsToScan(CurrentYear)
    /\ allLinks' = <<>>
    /\ FetchPage1(YearsToScan(CurrentYear), 1)
    /\ UNCHANGED <<maxResultsArg, hitsLeft, returned>>

\* The fetchPage call for page 1 settles and html1 is assigned (line 162);
\* an error that is not caught leaves searchMovieLinks (pc = "threw").
Page1Settles ==
    /\ pc = "page1"
    /\ \E url \in inflight, o \in OutcomesOf(1) :
         /\ o.links # <<>> => hitsLeft > 0
         /\ hitsLeft' = IF o.links # <<>> THEN hitsLeft - 1 ELSE hitsLeft
         /\ html1' = o.html
         /\ inflight' = inflight \ {url}
         /\ pc' = IF o.threw THEN "threw" ELSE "gotPage1"
    /\ UNCHANGED <<maxResultsArg, yearsToScan, yi, allLinks, maxPages, bi,
                   batch, results, issued, failed, returned>>

\* A variant that fetches the first page of the same year again.
SkipYearRetrying ==
    /\ FetchPage1(yearsToScan, yi)
    /\ UNCHANGED <<allLinks, maxResultsArg, returned>>

\* if (!html1) continue (line 164).
SkipYear == NextYearOrReturn(allLinks)

\* extractLinks(html1, baseUrl, query) (line 167) for every document page 1
\* can be.
Page1Links == [d \in UsableDocs |-> extractLinks(d, BaseUrl, Query)]

\* Lines 164-183: the year is skipped, or the links of page 1 are added and
\* the first batch of the other pages is fetched.
Page1Continue ==
    /\ pc = "gotPage1"
    /\ IF html1 = NoValue
       THEN SkipYear
       ELSE LET links == allLinks \o Page1Links[html1[1]]
                pages == ClampPages(detectMaxPages(html1[1]))
                urls == PageUrls(yearsToScan[yi], pages)
            IN  IF pages > 1
                THEN /\ allLinks' = links
                     /\ maxPages' = pages
                     /\ html1' = NoValue
                     /\ FetchBatch(urls, 0)
                     /\ UNCHANGED <<maxResultsArg, yi, returned>>
                ELSE NextYearOrReturn(links)
    /\ UNCHANGED <<yearsToScan, hitsLeft>>

\* The k-th promise of the batch settles (lines 185-189); a promise that is
\* rejected rejects Promise.all and the error leaves searchMovieLinks.
PageSettles ==
    /\ pc = "batch"
    /\ \E k \in 1..Len(batch) :
         /\ batch[k] \in inflight
         /\ \E o \in SettledOf(batch[k].page) :
              /\ o.links # <<>> => hitsLeft > 0
              /\ hitsLeft' = IF o.links # <<>> THEN hitsLeft - 1 ELSE hitsLeft
              /\ results' = StoreResult(results, k, [from |-> batch[k], links |-> o.links])
              /\ failed' = IF o.failed THEN failed \cup {k} ELSE failed
              /\ pc' = IF o.threw THEN "threw" ELSE pc
         /\ inflight' = inflight \ {batch[k]}
    /\ UNCHANGED <<maxResultsArg, yearsToScan, yi, allLinks, html1, maxPages,
                   bi, batch, issued, returned>>

\* Promise.all has resolved: line 191, then the next batch or the next year.
BatchContinue ==
    /\ pc = "batch"
    /\ inflight = {}
    /\ LET links == ConcatResults(allLinks, results, 1)
       IN  IF bi + BATCH_SIZE < Len(pageUrls)
           THEN /\ allLinks' = links
                /\ FetchBatch(pageUrls, bi + BATCH_SIZE)
                /\ UNCHANGED <<maxResultsArg, yi, html1, maxPages, returned>>
           ELSE NextYearOrReturn(links)
    /\ UNCHANGED <<yearsToScan, hitsLeft>>

Init == OrchInit /\ FetchIdle /\ UniqIdle /\ ExtIdle /\ MergeIdle /\ TsIdle

Next ==
    \/ Start /\ UNCHANGED <<fetchVars, uniqVars, extVars, mergeVars, tsVars>>
    \/ Page1Settles /\ UNCHANGED <<fetchVars, uniqVars, extVars, mergeVars, tsVars>>
    \/ Page1Continue /\ UNCHANGED <<fetchVars, uniqVars, extVars, mergeVars, tsVars>>
    \/ PageSettles /\ UNCHANGED <<fetchVars, uniqVars, extVars, mergeVars, tsVars>>
    \/ BatchContinue /\ UNCHANGED <<fetchVars, uniqVars, extVars, mergeVars, tsVars>>

\* The tool handler (lines 223-242): the JSON it answers with for the
\* results searchMovieLinks returned.
ToolResponse(res) ==
    [isError |-> FALSE, count |-> Len(res), results |-> res]

\* One call of searchMovieLinks.
Spec == Init /\ [][Next]_vars

\* ------------------------------------------------------------------------
\* One fetchPage call, step by step
\* ------------------------------------------------------------------------

\* What the server does with the request: it fails at the transport, stays
\* silent, or sends a status and headers (ok) and then a body, which arrives
\* completely or never does.
FetchBodies ==
    { Doc(0, <<>>), Doc(MinBodyLength - 1, HitsB), Doc(MinBodyLength, <<>>),
      Doc(MinBodyLength, HitsB), Doc(MinBodyLength, Pager(<<"3">>)) }

FetchPlans ==
    { [net |-> n, ok |-> o, body |-> b, bodyArrives |-> a] :
        n \in {"error", "silent", "response"}, o \in BOOLEAN, b \in FetchBodies,
        a \in BOOLEAN }

FetchUrls ==
    { PageUrl(YearsToScan(CurrentYear)[j], p) : j \in 1..(YEAR_RANGE + 1), p \in 1..2 }

\* fetchPage(url) is called: fetchWithTimeout arms the timer and awaits fetch
\* (lines 24-27 and 128).
FetchCall ==
    /\ fpc = "idle"
    /\ \E url \in FetchUrls, plan \in FetchPlans :
         /\ furl' = url
         /\ fplan' = plan
    /\ timer' = "armed"
    /\ fpc' = "awaitFetch"
    /\ UNCHANGED <<aborted, fvalue>>

\* A variant that clears the timer after the await and not in a finally.
TransportFailsTimerKept ==
    /\ fpc = "awaitFetch"
    /\ fplan.net = "error"
    /\ fpc' = "threw"
    /\ UNCHANGED <<furl, fplan, timer, aborted, fvalue>>

\* fetch rejects: finally clears the timer and the error leaves fetchPage.
TransportFails ==
    /\ fpc = "awaitFetch"
    /\ fplan.net = "error"
    /\ timer' = "cleared"
    /\ fpc' = "threw"
    /\ UNCHANGED <<furl, fplan, aborted, fvalue>>

\* The timer fires (line 25): the controller aborts, fetch rejects, finally
\* runs and the error leaves fetchPage.
TimerFires ==
    /\ timer = "armed"
    /\ aborted' = TRUE
    /\ timer' = "cleared"
    /\ fpc' = "threw"
    /\ UNCHANGED <<furl, fplan, fvalue>>

\* fetch resolves with the response: finally clears the timer (line 35),
\* then fetchPage returns null (line 129) or awaits response.text() (line 130).
HeadersArrive ==
    /\ fpc = "awaitFetch"
    /\ fplan.net = "response"
    /\ timer' = "cleared"
    /\ IF fplan.ok THEN fpc' = "awaitText" ELSE fpc' = "returned"
    /\ UNCHANGED <<furl, fplan, aborted, fvalue>>

\* A variant without the test of line 131.
BodyArrivesUnchecked ==
    /\ fpc = "awaitText"
    /\ fplan.bodyArrives
    /\ fvalue' = Some(fplan.body)
    /\ fpc' = "returned"
    /\ UNCHANGED <<furl, fplan, timer, aborted>>

\* response.text() resolves: lines 131-132.
BodyArrives ==
    /\ fpc = "awaitText"
    /\ fplan.bodyArrives
    /\ fvalue' = IF fplan.body.len = 0 \/ fplan.body.len < MinBodyLength
                 THEN NoValue ELSE Some(fplan.body)
    /\ fpc' = "returned"
    /\ UNCHANGED <<furl, fplan, timer, aborted>>

FetchNext ==
    \/ FetchCall /\ UNCHANGED <<orchVars, uniqVars, extVars, mergeVars, tsVars>>
    \/ TransportFails /\ UNCHANGED <<orchVars, uniqVars, extVars, mergeVars, tsVars>>
    \/ TimerFires /\ UNCHANGED <<orchVars, uniqVars, extVars, mergeVars, tsVars>>
    \/ HeadersArrive /\ UNCHANGED <<orchVars, uniqVars, extVars, mergeVars, tsVars>>
    \/ BodyArrives /\ UNCHANGED <<orchVars, uniqVars, extVars, mergeVars, tsVars>>

\* The event loop runs every callback that is ready: a timer that is armed
\* fires, and what the network delivers is handled.
FetchFairSpec ==
    /\ Init
    /\ [][FetchNext]_vars
    /\ WF_fetchVars(FetchCall)
    /\ WF_fetchVars(TransportFails)
    /\ WF_fetchVars(TimerFires)
    /\ WF_fetchVars(HeadersArrive)
    /\ WF_fetchVars(BodyArrives)

\* ------------------------------------------------------------------------
\* searchMovieLinks with the fetch of page 1 of each year step by step
\* ------------------------------------------------------------------------

\* What fetchPage makes of a plan whose body arrives.
PlanResponse(plan) ==
    [net |-> IF plan.net = "response" THEN "response" ELSE "error",
     ok |-> plan.ok, body |-> plan.body]

\* fetchPage(page1Url) is called (line 162). The site answers with matching
\* links only as long as hitsLeft allows.
Page1Call ==
    /\ pc = "page1"
    /\ FetchCall
    /\ furl' \in inflight
    /\ PageLinks(PlanResponse(fplan')) # <<>> => hitsLeft > 0
    /\ UNCHANGED orchVars

\* The call has returned or thrown: .catch(() => null) and the assignment
\* of html1 (line 162).
Page1Returns ==
    /\ fpc \in {"returned", "threw"}
    /\ Page1Settles
    /\ html1' = IF fpc = "returned" THEN fvalue ELSE NoValue
    /\ fpc' = "idle"
    /\ furl' = PageUrl(0, 0)
    /\ fplan' = [net |-> "silent", ok |-> FALSE, body |-> Doc(0, <<>>), bodyArrives |-> FALSE]
    /\ timer' = "unset"
    /\ aborted' = FALSE
    /\ fvalue' = NoValue

SearchStart == Start /\ UNCHANGED <<fetchVars, uniqVars, extVars, mergeVars, tsVars>>
SearchPage1Call == Page1Call /\ UNCHANGED <<uniqVars, extVars, mergeVars, tsVars>>
SearchTransportFails == TransportFails /\ UNCHANGED <<orchVars, uniqVars, extVars, mergeVars, tsVars>>
SearchTimerFires == TimerFires /\ UNCHANGED <<orchVars, uniqVars, extVars, mergeVars, tsVars>>
SearchHeadersArrive == HeadersArrive /\ UNCHANGED <<orchVars, uniqVars, extVars, mergeVars, tsVars>>
SearchBodyArrives == BodyArrives /\ UNCHANGED <<orchVars, uniqVars, extVars, mergeVars, tsVars>>
SearchPage1Returns == Page1Returns /\ UNCHANGED <<uniqVars, extVars, mergeVars, tsVars>>
SearchPage1Continue == Page1Continue /\ UNCHANGED <<fetchVars, uniqVars, extVars, mergeVars, tsVars>>
SearchPageSettles == PageSettles /\ UNCHANGED <<fetchVars, uniqVars, extVars, mergeVars, tsVars>>
SearchBatchContinue == BatchContinue /\ UNCHANGED <<fetchVars, uniqVars, extVars, mergeVars, tsVars>>

SearchNext ==
    \/ SearchStart
    \/ SearchPage1Call
    \/ SearchTransportFails
    \/ SearchTimerFires
    \/ SearchHeadersArrive
    \/ SearchBodyArrives
    \/ SearchPage1Returns
    \/ SearchPage1Continue
    \/ SearchPageSettles
    \/ SearchBatchContinue

\* The event loop runs every continuation that is ready, every armed timer
\* fires, and what the network delivers is handled.
SearchFairSpec ==
    /\ Init
    /\ [][SearchNext]_vars
    /\ WF_vars(SearchStart)
    /\ WF_vars(SearchPage1Call)
    /\ WF_vars(SearchTransportFails)
    /\ WF_vars(SearchTimerFires)
    /\ WF_vars(SearchHeadersArrive)
    /\ WF_vars(SearchBodyArrives)
    /\ WF_vars(SearchPage1Returns)
    /\ WF_vars(SearchPage1Continue)
    /\ WF_vars(SearchPageSettles)
    /\ WF_vars(SearchBatchContinue)

\* ------------------------------------------------------------------------
\* uniqueLinks on the sequences of at most MaxLen links
\* ------------------------------------------------------------------------

MaxLen == 3

MovieUrl(n) == UrlToString(MkUrl(Http, <<>>, <<"m", "k">>, <<>>, MoviePath(n)))

SomeLinks ==
    { [title |-> t, url |-> MovieUrl(n)] : t \in {Trim(TitleA), TitleB}, n \in 1..3 }

LinkSeqs == UNION { [1..n -> SomeLinks] : n \in 0..MaxLen }

UniqInit ==
    /\ OrchInit /\ FetchIdle /\ ExtIdle /\ MergeIdle /\ TsIdle
    /\ ulPc = "idle"
    /\ ulIn \in LinkSeqs
    /\ ulOut = <<>>

UniqApply ==
    /\ ulPc = "idle"
    /\ ulOut' = uniqueLinks(ulIn)
    /\ ulPc' = "done"
    /\ UNCHANGED ulIn

\* uniqueLinks applied to its own result.
UniqAgain ==
    /\ ulPc = "done"
    /\ ulOut' = uniqueLinks(ulOut)
    /\ ulPc' = "twice"
    /\ UNCHANGED ulIn

UniqNext ==
    \/ UniqApply /\ UNCHANGED <<orchVars, fetchVars, extVars, mergeVars, tsVars>>
    \/ UniqAgain /\ UNCHANGED <<orchVars, fetchVars, extVars, mergeVars, tsVars>>

UniqSpec == UniqInit /\ [][UniqNext]_vars

\* ------------------------------------------------------------------------
\* extractLinks on the documents of at most MaxAnchors anchors
\* ------------------------------------------------------------------------

MaxAnchors == 2

KaiPath == <<"/", "k", "a", "i">>

\* The detail page and the category page of the comments of lines 85-86.
DhandoraaPath ==
    <<"/", "d", "h", "a", "n", "d", "o", "r", "a", "a", "-", "2", "0", "2",
       "5", "-", "t", "a", "m", "i", "l", "-", "m", "o", "v", "i", "e", "/">>

TamilMoviesPath ==
    <<"/", "t", "a", "m", "i", "l", "-", "2", "0", "2", "5", "-", "m", "o",
       "v", "i", "e", "s", "/">>

Dhandoraa == <<"D", "h", "a", "n", "d", "o", "r", "a", "a">>

TamilMovies ==
    <<"T", "a", "m", "i", "l", " ", "2", "0", "2", "5", " ", "M", "o", "v",
       "i", "e", "s">>

AnchorPool ==
    { MovieAnchor(1, TitleA),
      MovieAnchor(1, <<"x">>),
      Anchor(RelHref(DhandoraaPath), Dhandoraa, TRUE),
      Anchor(RelHref(TamilMoviesPath), TamilMovies, TRUE),
      Anchor(RelHref(KaiPath \o MoviesMarker \o <<"a">> \o MovieMarker), TitleB, TRUE),
      MovieAnchor(2, <<"x">>),
      Anchor(RelHref(KaiPath \o MovieMarker), <<"x">>, TRUE),
      Anchor(RelHref(KaiPath \o SeriesMarker), <<"x">>, TRUE),
      Anchor(RelHref(KaiPath \o MoviesMarker), TitleB, TRUE),
      Anchor(RelHref(<<"/", "k", "a", "i", "/">>), TitleB, TRUE),
      Anchor(AbsHref(MkUrl(Http, <<>>, <<"M", "K">>, <<"8", "0">>, MoviePath(3))), TitleB, TRUE),
      Anchor(AbsHref(MkUrl(Http, <<>>, <<"x">>, <<>>, MoviePath(4))), TitleB, TRUE),
      Anchor(AbsHref(MkUrl(Http, <<>>, <<"m", "k", "x">>, <<>>, MoviePath(5))), TitleB, TRUE),
      Anchor(AbsHref(MkUrl(Http, <<>>, <<"m", "k">>, <<"8">>, MoviePath(6))), TitleB, TRUE),
      Anchor(AbsHref(MkUrl(Http, <<"m", "k">>, <<"x">>, <<>>, MoviePath(7))), TitleB, TRUE),
      Anchor(BadHref(<<"h", "t", "t", "p", ":", "/", "/", "[">>), TitleB, TRUE),
      Anchor(NoHref, TitleB, TRUE),
      Anchor(RelHref(MoviePath(8)), <<" ", " ">>, TRUE),
      Anchor(RelHref(MoviePath(9)), TitleB, FALSE) }

ExtractDocs ==
    { Doc(MinBodyLength, as) : as \in UNION { [1..n -> AnchorPool] : n \in 0..MaxAnchors } }

ExtractQueries ==
    { <<"k", "a", "i">>, <<" ", "K", "a", " ", " ", "I", " ">>, <<" ">>, ToLowerCase(Dhandoraa) }

ExtractInit ==
    /\ OrchInit /\ FetchIdle /\ UniqIdle /\ MergeIdle /\ TsIdle
    /\ exPc = "idle"
    /\ exHtml \in ExtractDocs
    /\ exBase = BaseUrl
    /\ exQuery \in ExtractQueries
    /\ exOut = <<>>

ExtractApply ==
    /\ exPc = "idle"
    /\ exOut' = extractLinks(exHtml, exBase, exQuery)
    /\ exPc' = "done"
    /\ UNCHANGED <<exHtml, exBase, exQuery>>

ExtractNext == ExtractApply /\ UNCHANGED <<orchVars, fetchVars, uniqVars, mergeVars, tsVars>>

ExtractSpec == ExtractInit /\ [][ExtractNext]_vars

\* ------------------------------------------------------------------------
\* Properties
\* ------------------------------------------------------------------------

\* The first occurrence of every url of s, in the order of s.
RECURSIVE KeepFirst(_, _)
KeepFirst(s, i) ==
    IF i > Len(s) THEN <<>>
    ELSE (IF \A j \in 1..(i - 1) : s[j].url # s[i].url THEN <<s[i]>> ELSE <<>>)
           \o KeepFirst(s, i + 1)

\* The first n elements of s.
Take(s, n) == [i \in 1..(IF n < Len(s) THEN n ELSE Len(s)) |-> s[i]]

\* The links of the settled promises of a batch, by index.
RECURSIVE LinksByIndex(_)
LinksByIndex(rs) ==
    IF rs = <<>> THEN <<>> ELSE Head(rs)[1].links \o LinksByIndex(Tail(rs))

\* The links of the promises of a batch that did not fail, by index.
RECURSIVE LinksOfUsable(_, _)
LinksOfUsable(rs, k) ==
    IF k > Len(rs) THEN <<>>
    ELSE (IF k \in failed THEN <<>> ELSE rs[k][1].links) \o LinksOfUsable(rs, k + 1)

\* After this step the links accumulated are acc: in allLinks, or, when the
\* step is the last one, deduplicated and cut to maxResults in the value
\* returned.
AccumulatedNext(acc) ==
    IF pc' = "done"
    THEN returned' = Some(Take(KeepFirst(acc, 1),
                               IF maxResultsArg' = NoValue THEN 10 ELSE maxResultsArg'[1]))
    ELSE allLinks' = acc

\* C1: the value searchMovieLinks returns has at most maxResults elements
\* (10 when maxResults is omitted) and at most 50, whatever the pages
\* answered.
C1_ResultCount ==
    returned # NoValue =>
        /\ Len(returned[1]) <= 50
        /\ maxResultsArg = NoValue => Len(returned[1]) <= 10
        /\ maxResultsArg # NoValue => Len(returned[1]) <= maxResultsArg[1]

\* More than ten distinct links were found and maxResults was omitted.
C1_Witness ==
    /\ pc = "done"
    /\ maxResultsArg = NoValue
    /\ Len(allLinks) > 10
    /\ Len(returned[1]) = 10

\* The index of the first character of s from i on that ends an authority.
RECURSIVE IndexOfSlash(_, _)
IndexOfSlash(s, i) ==
    IF i > Len(s) \/ s[i] \in {"/", "?", "#"} THEN i ELSE IndexOfSlash(s, i + 1)

\* What follows the userinfo of an authority.
RECURSIVE AfterLastAt(_)
AfterLastAt(s) ==
    IF \E i \in 1..Len(s) : s[i] = "@"
    THEN AfterLastAt(SubSeq(s, (CHOOSE i \in 1..Len(s) : s[i] = "@" /\ \A j \in 1..(i - 1) : s[j] # "@") + 1, Len(s)))
    ELSE s

\* The origin of a serialised URL: its scheme, "://", and the host and port
\* of its authority, without the userinfo.
OriginOfText(s) ==
    LET c == CHOOSE i \in 1..Len(s) : SubSeq(s, i, i + 2) = <<":", "/", "/">>
                                       /\ \A j \in 1..(i - 1) : s[j] # ":"
        e == IndexOfSlash(s, c + 3)
    IN  SubSeq(s, 1, c + 2) \o AfterLastAt(SubSeq(s, c + 3, e - 1))

\* C2: extractLinks returns no link whose URL has another origin (scheme,
\* host and port) than the base URL, also when the URL only starts with the
\* characters of the base origin.
C2_SameOrigin ==
    exPc = "done" =>
        \A i \in 1..Len(exOut) : OriginOfText(exOut[i].url) = UrlOrigin(ParseUrl(exBase))

\* The value of a promise of a batch is kept at the index of its page.
C3_SlotsByPage ==
    \A k \in 1..Len(results) :
        /\ batch[k] = PageUrl(yearsToScan[yi], bi + k + 1)
        /\ results[k] # NoValue => results[k][1].from = batch[k]

\* Links are added when page 1 of a year or a whole batch has settled, in
\* the order of the pages, and the years are taken in the order of the plan.
C3_Step ==
    /\ (pc = "batch" /\ inflight = {}) => AccumulatedNext(allLinks \o LinksByIndex(results))
    /\ (pc = "gotPage1" /\ html1 # NoValue)
          => AccumulatedNext(allLinks \o extractLinks(html1[1], BaseUrl, Query))
    /\ (pc = "batch" /\ inflight # {}) => allLinks' = allLinks
    /\ yi' = yi \/ (yi' = yi + 1 /\ inflight' = {PageUrl(yearsToScan'[yi'], 1)})

\* C3: the links are accumulated in the order of the plan, the years in
\* order, page 1 of a year before its other pages, the pages of a batch by
\* index and not by arrival, and only when the whole batch has settled; the
\* value returned is the first occurrence of each url of that sequence.
C3_PlanOrder == [](C3_SlotsByPage) /\ [][C3_Step]_vars

\* A later page of a batch has settled with links before an earlier one.
C3_Witness ==
    /\ pc = "batch"
    /\ allLinks # <<>>
    /\ results[1] = NoValue
    /\ results[2] # NoValue
    /\ results[2][1].links # <<>>

\* C4: uniqueLinks returns the first occurrence of every url of its input,
\* in the order of the input: no url twice, every url of the input once.
FirstIndex(s, url) == CHOOSE i \in 1..Len(s) : s[i].url = url /\ \A j \in 1..(i - 1) : s[j].url # url

C4_FirstOccurrence ==
    ulPc = "done" =>
        /\ \A i, j \in 1..Len(ulOut) : i # j => ulOut[i].url # ulOut[j].url
        /\ { ulIn[i].url : i \in 1..Len(ulIn) } = { ulOut[i].url : i \in 1..Len(ulOut) }
        /\ \A i \in 1..Len(ulOut) : ulOut[i] = ulIn[FirstIndex(ulIn, ulOut[i].url)]
        /\ \A i, j \in 1..Len(ulOut) :
             i < j => FirstIndex(ulIn, ulOut[i].url) < FirstIndex(ulIn, ulOut[j].url)

\* A url occurs twice, under two titles, around another url.
C4_Witness ==
    /\ ulPc = "done"
    /\ Len(ulIn) = 3
    /\ ulIn[1].url = ulIn[3].url
    /\ ulIn[1].title # ulIn[3].title
    /\ ulIn[2].url # ulIn[1].url
    /\ Len(ulOut) = 2

\* C5: the years scanned are the year after the current one, the current
\* one and the seven years before it, nine years in this order.
C5_YearsPlan ==
    pc # "idle" => yearsToScan = [i \in 1..9 |-> CurrentYear + 2 - i]

\* Every failure of a fetch is the null page, and until page 1 of a year
\* has settled no other page of the year is fetched.
C6_FirstPageOnly ==
    /\ \A r \in FailureResponses : FetchPageOrNull(r) = NoValue
    /\ pc \in {"page1", "gotPage1"} => issued = {1}

\* After a null page 1 the links are unchanged and the next year begins.
C6_Step ==
    (pc = "gotPage1" /\ html1 = NoValue) =>
        /\ AccumulatedNext(allLinks)
        /\ IF yi < Len(yearsToScan)
           THEN /\ pc' = "page1"
                /\ yi' = yi + 1
                /\ issued' = {1}
                /\ inflight' = {PageUrl(yearsToScan[yi + 1], 1)}
           ELSE pc' = "done"

\* C6: a year whose first page is unusable or fails adds no link, no other
\* page of it is fetched, and the next year's first page is fetched (or,
\* after the last year, the call returns).
C6_YearSkipped == [](C6_FirstPageOnly) /\ [][C6_Step]_vars

\* The first page of a year has failed after links were found in an
\* earlier year.
C6_Witness ==
    /\ pc = "gotPage1"
    /\ html1 = NoValue
    /\ allLinks # <<>>
    /\ yi > 1

\* C7: at most 50 pages of a year are fetched and no page above 50,
\* whatever number the pagination of the first page names.
C7_PageCeiling ==
    /\ Cardinality(issued) <= 50
    /\ \A p \in issued : p <= 50
    /\ \A u \in inflight : u.page <= 50

\* The last batch of a year whose pagination names more than 50 pages.
C7_Witness ==
    /\ pc = "batch"
    /\ maxPages = 50
    /\ Cardinality(issued) = 50
    /\ PageUrl(yearsToScan[yi], 50) \in inflight

\* At most 10 fetches are in flight, all of the year being scanned.
C8_Bounded ==
    /\ Cardinality(inflight) <= 10
    /\ \A u \in inflight : u.year = yearsToScan[yi]

\* A fetch is issued only when none is in flight.
C8_Step == inflight' \ inflight # {} => inflight = {}

\* C8: at most 10 fetches are in flight, all for the same year, and a
\* fetch of the next batch or year is issued only when none is in flight.
C8_Batches == [](C8_Bounded) /\ [][C8_Step]_vars

\* A full batch is in flight.
C8_Witness == Cardinality(inflight) = 10

\* A page that failed holds no link.
C9_FailedAddsNothing ==
    \A k \in failed : results[k] # NoValue /\ results[k][1].links = <<>>

\* A failure leaves the batch running and the other values in place; the
\* settled batch adds the links of the other pages and the next batch starts.
C9_Step ==
    /\ (pc = "batch" /\ inflight # {} /\ failed' # failed) =>
          /\ pc' = "batch" /\ yi' = yi /\ bi' = bi /\ batch' = batch
          /\ allLinks' = allLinks
          /\ \A k \in 1..Len(results) : results[k] # NoValue => results'[k] = results[k]
          /\ \E u \in inflight : inflight' = inflight \ {u}
    /\ (pc = "batch" /\ inflight = {} /\ failed # {}) =>
          /\ AccumulatedNext(allLinks \o LinksOfUsable(results, 1))
          /\ bi + 10 < maxPages - 1 =>
                /\ pc' = "batch" /\ yi' = yi /\ bi' = bi + 10
                /\ inflight' = { PageUrl(yearsToScan[yi], p) :
                                   p \in (bi + 12)..(IF bi + 21 < maxPages THEN bi + 21 ELSE maxPages) }

\* C9: a page of a batch that fails adds no link and changes nothing else:
\* the other pages of the batch keep their links, which are accumulated
\* when the batch has settled, and the next batch of the year is fetched.
C9_FailureIsolated == [](C9_FailedAddsNothing) /\ [][C9_Step]_vars

\* A batch has settled with a page that failed and a page with links, and
\* the year has more pages.
C9_Witness ==
    /\ pc = "batch"
    /\ inflight = {}
    /\ failed # {}
    /\ \E k \in 1..Len(results) : k \notin failed /\ results[k][1].links # <<>>
    /\ bi + 10 < maxPages - 1

\* C10: every fetchPage call completes, by returning or by throwing.
C10_FetchCompletes == <>(fpc \in {"returned", "threw"})

\* ------------------------------------------------------------------------
\* The merge of the pages' links: uniqueLinks per page and after the merge
\* ------------------------------------------------------------------------

\* Links of two urls, the first under two titles.
MergeLinks ==
    { l \in SomeLinks :
        \/ l.url = MovieUrl(1)
        \/ l.url = MovieUrl(2) /\ l.title = TitleB }

\* The links of one page before extractLinks removes its duplicates: at most
\* MaxAnchors of them.
RawPages == UNION { [1..n -> MergeLinks] : n \in 0..MaxAnchors }

\* The pages merged: at most MaxHits of them.
RawPageLists == UNION { [1..n -> RawPages] : n \in 0..MaxHits }

\* A variant of the return of extractLinks that keeps the last occurrence.
DedupedPageKeepingLast(page) == uniqueLinksKeepingLast(page)

\* return uniqueLinks(links), the last statement of extractLinks (line 105).
DedupedPage(page) == uniqueLinks(page)

\* allLinks = allLinks.concat(...) over the pages in order (lines 167, 191).
RECURSIVE ConcatPages(_, _)
ConcatPages(pages, k) ==
    IF k > Len(pages) THEN <<>>
    ELSE pages[k] \o ConcatPages(pages, k + 1)

MergeInit ==
    /\ OrchInit /\ FetchIdle /\ UniqIdle /\ ExtIdle /\ TsIdle
    /\ mgPc = "idle"
    /\ mgPages \in RawPageLists
    /\ mgMax \in {1, 2, DefaultMaxResults}
    /\ mgCode = <<>>
    /\ mgOnce = <<>>

\* The code: each page's links pass uniqueLinks inside extractLinks, the
\* merged list passes it again and is sliced (lines 105, 200, 202).
MergePerPage ==
    /\ mgPc = "idle"
    /\ mgCode' = FinalResult(
                    ConcatPages([k \in 1..Len(mgPages) |-> DedupedPage(mgPages[k])], 1),
                    mgMax)
    /\ mgPc' = "code"
    /\ UNCHANGED <<mgPages, mgMax, mgOnce>>

\* uniqueLinks applied once, to the merged list of the pages' links, and the
\* slice (lines 200, 202).
MergeOnce ==
    /\ mgPc = "code"
    /\ mgOnce' = FinalResult(ConcatPages(mgPages, 1), mgMax)
    /\ mgPc' = "both"
    /\ UNCHANGED <<mgPages, mgMax, mgCode>>

MergeNext ==
    \/ MergePerPage /\ UNCHANGED <<orchVars, fetchVars, uniqVars, extVars, tsVars>>
    \/ MergeOnce /\ UNCHANGED <<orchVars, fetchVars, uniqVars, extVars, tsVars>>

MergeSpec == MergeInit /\ [][MergeNext]_vars

\* ------------------------------------------------------------------------
\* The search-endpoint variant of searchMovieLinks (unnamed/part_000)
\* ------------------------------------------------------------------------

\* The candidate urls in list order (lines 97-102), each named by what its
\* template puts between the base url and the encoded query.
Candidates == <<"/search/", "/?s=", "/search?search=", "/search?query=">>

\* The body of the each-callback of the variant's extractLinks (lines 67-78)
\* for one anchor: the links it pushes, one or none.
EndpointAnchorLink(a, baseUrl) ==
    LET text == Trim(a.text)
        url == normalizeUrl(baseUrl, a.href)
        baseOrigin == ToLowerCase(UrlOrigin(ParseUrl(baseUrl)))
    IN  IF a.href.kind = "none" THEN <<>>
        ELSE IF url = NoValue THEN <<>>
        ELSE IF ~StartsWith(ToLowerCase(url[1]), baseOrigin) THEN <<>>
        ELSE IF text = <<>> THEN <<>>
        ELSE <<[title |-> text, url |-> url[1]]>>

\* The each-loop over every anchor of the document, in document order.
RECURSIVE EndpointCollect(_, _, _)
EndpointCollect(anchors, i, baseUrl) ==
    IF i > Len(anchors) THEN <<>>
    ELSE EndpointAnchorLink(anchors[i], baseUrl)
           \o EndpointCollect(anchors, i + 1, baseUrl)

\* extractLinks(html, baseUrl) of the variant (lines 61-82).
EndpointExtractLinks(html, baseUrl) ==
    uniqueLinks(EndpointCollect(html.anchors, 1, baseUrl))

\* The filter of lines 117-120.
LooksLikeMovie(link) ==
    LET lower == ToLowerCase(link.url)
    IN  \/ Includes(lower, <<"/", "m", "o", "v", "i", "e">>)
        \/ Includes(lower, <<"/", "m", "o", "v", "i", "e", "s">>)
        \/ Includes(lower, <<"/", "m", "o", "v", "i", "e", "-">>)
        \/ Includes(lower, <<"/", "t", "a", "m", "i", "l">>)

\* /movie/<n>
MoviePagePath(n) == <<"/", "m", "o", "v", "i", "e", "/", Letters[n]>>

\* A result page: two movies, one of them twice, a link that is no movie
\* and a link to another site.
ResultsA ==
    << Anchor(RelHref(MoviePagePath(1)), TitleA, FALSE),
       Anchor(RelHref(KaiPath), TitleB, FALSE),
       Anchor(RelHref(MoviePagePath(1)), TitleB, TRUE),
       Anchor(AbsHref(MkUrl(Http, <<>>, <<"x">>, <<>>, MoviePagePath(3))), TitleB, FALSE),
       Anchor(RelHref(MoviePagePath(2)), TitleB, FALSE) >>

\* Another result page: a category page and an anchor without text.
ResultsB ==
    << Anchor(RelHref(TamilMoviesPath), TamilMovies, FALSE),
       Anchor(RelHref(MoviePagePath(4)), <<" ">>, FALSE) >>

EndpointBodies ==
    { Doc(0, <<>>), Doc(MinBodyLength - 1, ResultsA), Doc(MinBodyLength, ResultsA),
      Doc(MinBodyLength, ResultsB), Doc(MinBodyLength, <<>>) }

\* What the site does with one candidate.
EndpointPlans ==
    { [net |-> n, ok |-> o, body |-> b, bodyArrives |-> a] :
        n \in {"error", "silent", "response"}, o \in BOOLEAN, b \in EndpointBodies,
        a \in BOOLEAN }

\* extractLinks(html, baseUrl).filter(...) of lines 116-120, by body.
EndpointLinks ==
    [ b \in EndpointBodies |-> SelectSeq(EndpointExtractLinks(b, BaseUrl), LooksLikeMovie) ]

\* The value returned: [] of line 114 or the links of lines 116-123.
EndpointResult(html, maxResults) ==
    IF html = NoValue THEN <<>>
    ELSE Slice(EndpointLinks[html[1]], 0, maxResults)

\* A variant of the loop without the break.
NeverBreaks(html) == FALSE

\* if (html) break (line 111).
Breaks(html) == html # NoValue

\* trySearch(candidates[k]) is called (line 107): fetchWithTimeout arms the
\* timer and awaits fetch (lines 24-27 and 85).
TrySearchCall(k) ==
    /\ tsIndex' = k
    /\ tsFetched' = Append(tsFetched, Candidates[k])
    /\ fplan' \in EndpointPlans
    /\ timer' = "armed"
    /\ aborted' = FALSE
    /\ fvalue' = NoValue
    /\ fpc' = "awaitFetch"
    /\ tsPc' = "await"
    /\ UNCHANGED furl

\* searchMovieLinks is called: lines 93-104 and the first iteration of the
\* loop up to its await.
EndpointStart ==
    /\ tsPc = "idle"
    /\ \E arg \in {NoValue, Some(1), Some(2)} : tsMax' = MaxResultsOf(arg)
    /\ TrySearchCall(1)
    /\ UNCHANGED <<tsHtml, tsReturned>>

\* The call of trySearch is over and nothing is in flight.
TrySearchOver ==
    /\ fpc' = "idle"
    /\ fplan' = [net |-> "silent", ok |-> FALSE, body |-> Doc(0, <<>>),
                 bodyArrives |-> FALSE]
    /\ timer' = "unset"
    /\ aborted' = FALSE
    /\ fvalue' = NoValue
    /\ UNCHANGED furl

\* trySearch has returned or thrown: the try/catch and the assignment of
\* html (lines 106-110), the break (line 111), and then the next iteration
\* up to its await or, after the loop, the return (lines 114-123).
TrySearchSettles ==
    /\ tsPc = "await"
    /\ fpc \in {"returned", "threw"}
    /\ LET r == Caught([threw |-> fpc = "threw", value |-> fvalue])
       IN  IF r.threw
           THEN /\ tsPc' = "threw"
                /\ TrySearchOver
                /\ UNCHANGED <<tsIndex, tsMax, tsHtml, tsFetched, tsReturned>>
           ELSE /\ tsHtml' = r.value
                /\ IF ~Breaks(r.value) /\ tsIndex < Len(Candidates)
                   THEN /\ TrySearchCall(tsIndex + 1)
                        /\ UNCHANGED <<tsMax, tsReturned>>
                   ELSE /\ tsReturned' = Some(EndpointResult(r.value, tsMax))
                        /\ tsPc' = "done"
                        /\ TrySearchOver
                        /\ UNCHANGED <<tsIndex, tsMax, tsFetched>>

EndpointNext ==
    \/ EndpointStart /\ UNCHANGED <<orchVars, uniqVars, extVars, mergeVars>>
    \/ SearchTransportFails
    \/ SearchTimerFires
    \/ SearchHeadersArrive
    \/ SearchBodyArrives
    \/ TrySearchSettles /\ UNCHANGED <<orchVars, uniqVars, extVars, mergeVars>>

EndpointSpec == Init /\ [][EndpointNext]_vars

\* C11: there is no early termination: page 1 of every year of the plan is
\* eventually fetched, and so is every page 2..max of a year whose first page
\* was usable, however many links have been accumulated.
C11_FullScan ==
    /\ \A j \in 1..(YEAR_RANGE + 1) : <>(yi = j /\ 1 \in issued)
    /\ \A p \in 2..3 :
          [](  (pc = "gotPage1" /\ html1 # NoValue
                  /\ ClampPages(detectMaxPages(html1[1])) >= p)
            => <>(p \in issued))

\* C12: every link extractLinks returns has a lowercased URL that does not
\* contain "-movies/" and contains "-movie/" or "-series/".
C12_SlugShape ==
    exPc = "done" =>
        \A i \in 1..Len(exOut) :
            LET lower == ToLowerCase(exOut[i].url)
            IN  /\ ~Includes(lower, MoviesMarker)
                /\ Includes(lower, MovieMarker) \/ Includes(lower, SeriesMarker)

\* The detail page /dhandoraa-2025-tamil-movie/ is returned for the query
\* "dhandoraa" and its sibling, the category page, is not.
C12_Witness ==
    /\ exPc = "done"
    /\ exQuery = ToLowerCase(Dhandoraa)
    /\ exHtml.anchors = << Anchor(RelHref(TamilMoviesPath), TamilMovies, TRUE),
                           Anchor(RelHref(DhandoraaPath), Dhandoraa, TRUE) >>
    /\ exOut = << [title |-> Dhandoraa,
                   url |-> UrlToString(MkUrl(Http, <<>>, <<"m", "k">>, <<>>, DhandoraaPath))] >>

\* The words of a query: its maximal runs of characters that are not
\* whitespace, in lower case.
WordsOf(query) ==
    LET q == ToLowerCase(query)
    IN  { SubSeq(q, ij[1], ij[2]) :
            ij \in { x \in (1..Len(q)) \X (1..Len(q)) :
                       /\ x[1] <= x[2]
                       /\ \A k \in x[1]..x[2] : ~IsSpace(q[k])
                       /\ x[1] = 1 \/ IsSpace(q[x[1] - 1])
                       /\ x[2] = Len(q) \/ IsSpace(q[x[2] + 1]) } }

\* The anchor got past the structural, origin and slug filters.
PassedFilters(a, baseUrl) ==
    /\ a.inDivF
    /\ a.href.kind # "none"
    /\ Trim(a.text) # <<>>
    /\ normalizeUrl(baseUrl, a.href) # NoValue
    /\ FromBaseOrigin(ToLowerCase(normalizeUrl(baseUrl, a.href)[1]),
                      ToLowerCase(UrlOrigin(ParseUrl(baseUrl))))
    /\ SlugAccepted(ToLowerCase(normalizeUrl(baseUrl, a.href)[1]))

\* All words of the query are in the text of the anchor, or all are in its
\* URL.
MatchesQuery(a, baseUrl, query) ==
    \/ \A w \in WordsOf(query) : Includes(ToLowerCase(Trim(a.text)), w)
    \/ \A w \in WordsOf(query) :
          Includes(ToLowerCase(normalizeUrl(baseUrl, a.href)[1]), w)

\* C13: an anchor that passed the filters is emitted if and only if all
\* words of the query are in its lowercased text or all are in its lowercased
\* URL; the title emitted is the trimmed, non-empty text. (Of the anchors
\* emitted with one URL, the first is the one returned.)
C13_MatchRule ==
    exPc = "done" =>
        LET as == exHtml.anchors
            Emitted(i) == /\ PassedFilters(as[i], exBase)
                          /\ MatchesQuery(as[i], exBase, exQuery)
            LinkOf(i) == [title |-> Trim(as[i].text),
                          url |-> normalizeUrl(exBase, as[i].href)[1]]
        IN  /\ \A k \in 1..Len(exOut) :
                  /\ exOut[k].title # <<>>
                  /\ \E i \in 1..Len(as) : Emitted(i) /\ exOut[k] = LinkOf(i)
            /\ \A i \in 1..Len(as) :
                  Emitted(i) =>
                      \E k \in 1..Len(exOut) :
                          /\ exOut[k].url = LinkOf(i).url
                          /\ \E j \in 1..i :
                                /\ Emitted(j) /\ exOut[k] = LinkOf(j)
                                /\ \A h \in 1..(j - 1) :
                                      Emitted(h) => LinkOf(h).url # LinkOf(j).url

\* One anchor matches by its text alone and one by its URL alone, for a
\* query in mixed case with its words apart.
C13_Witness ==
    /\ exPc = "done"
    /\ exQuery = <<" ", "K", "a", " ", " ", "I", " ">>
    /\ exHtml.anchors = << MovieAnchor(1, TitleA),
                           Anchor(RelHref(KaiPath \o MovieMarker), <<"x">>, TRUE) >>
    /\ Len(exOut) = 2
    /\ exOut[1].title = <<"K", "a", "i">>

\* C14: no outcome of a page makes searchMovieLinks throw; the tool answers
\* with count equal to the number of results, and with no results and count
\* 0 when no page yielded a match.
C14_NoFatalError ==
    /\ pc # "threw"
    /\ pc = "done" =>
          /\ returned # NoValue
          /\ ToolResponse(returned[1]).isError = FALSE
          /\ ToolResponse(returned[1]).count = Len(ToolResponse(returned[1]).results)
          /\ ToolResponse(returned[1]).results = returned[1]
          /\ allLinks = <<>> =>
                /\ ToolResponse(returned[1]).count = 0
                /\ ToolResponse(returned[1]).results = <<>>

\* The call has returned with no match.
C14_Witness ==
    /\ pc = "done"
    /\ allLinks = <<>>
    /\ returned = Some(<<>>)
    /\ ToolResponse(returned[1]).count = 0

\* fetchPage returns the body exactly when the status is a success and the
\* body has at least 200 characters, and null otherwise.
C15_UsableIff ==
    fpc = "returned" =>
        IF fplan.ok /\ fplan.body.len >= 200
        THEN fvalue = Some(fplan.body)
        ELSE fvalue = NoValue

\* A first page that is unusable and one whose fetch threw are treated
\* alike: html1 is null, and the year adds nothing.
C15_Step ==
    /\ (pc = "page1" /\ (fpc = "threw" \/ (fpc = "returned" /\ fvalue = NoValue)))
          => (pc' = "gotPage1" /\ html1' = NoValue /\ allLinks' = allLinks)
    /\ (pc = "gotPage1" /\ html1 = NoValue) => AccumulatedNext(allLinks)

\* C15: fetchPage yields the body if and only if the status is a success and
\* the body is non-empty with length at least 200, and null otherwise; the
\* orchestrator treats null and a transport error alike: the page adds
\* nothing.
C15_Unusable == [](C15_UsableIff) /\ [][C15_Step]_vars

\* fetchPage has returned null for a body of 199 characters under a success
\* status, after links were found in an earlier year.
C15_Witness ==
    /\ pc = "page1"
    /\ allLinks # <<>>
    /\ fpc = "returned"
    /\ fplan.ok
    /\ fplan.body.len = 199
    /\ fplan.body.anchors # <<>>
    /\ fvalue = NoValue

\* C16: once fetchWithTimeout has returned a response or thrown (transport
\* error or abort), its timer is no longer armed.
C16_TimerReleased ==
    fpc \in {"awaitText", "returned", "threw"} => timer = "cleared"

\* fetchWithTimeout has thrown a transport error before the timer fired.
C16_Witness ==
    /\ fpc = "threw"
    /\ fplan.net = "error"
    /\ ~aborted
    /\ timer = "cleared"

\* C17: uniqueLinks is idempotent: applied to its own result it returns
\* that result.
C17_Idempotent == [][ulPc = "done" => ulOut' = ulOut]_vars

\* uniqueLinks was applied twice to a sequence with one url three times.
C17_Witness ==
    /\ ulPc = "twice"
    /\ Len(ulIn) = 3
    /\ Len(ulOut) = 1

\* C18: removing each page's duplicates before the merge changes nothing:
\* the result of the code, uniqueLinks of the merged per-page uniqueLinks
\* sliced to maxResults, is uniqueLinks of the merged pages sliced to
\* maxResults.
C18_SameResult == mgPc = "both" => mgCode = mgOnce

\* Two pages were merged, the first holding one url twice under two titles,
\* the second holding that url again, and the slice cut the result.
C18_Witness ==
    /\ mgPc = "both"
    /\ Len(mgPages) = 2
    /\ Len(mgPages[1]) = 2
    /\ mgPages[1][1].url = mgPages[1][2].url
    /\ mgPages[1][1].title # mgPages[1][2].title
    /\ \E i \in 1..Len(mgPages[2]) : mgPages[2][i].url = mgPages[1][1].url
    /\ \E i \in 1..Len(mgPages[2]) : mgPages[2][i].url # mgPages[1][1].url
    /\ mgMax = 1
    /\ Len(mgCode) = 1

\* C19: the query words of an accepted query (a string of length at least 1)
\* hold no empty word, and every link emitted has a non-empty query word in
\* its lowercased title or in its lowercased url.
C19_NoEmptyWord ==
    (exPc = "done" /\ Len(exQuery) >= 1)
        => LET words == QueryWords(exQuery)
           IN  /\ \A i \in 1..Len(words) : words[i] # <<>>
               /\ \A k \in 1..Len(exOut) :
                     \E i \in 1..Len(words) :
                        /\ words[i] # <<>>
                        /\ \/ Includes(ToLowerCase(exOut[k].title), words[i])
                           \/ Includes(ToLowerCase(exOut[k].url), words[i])

\* The urls handed to trySearch so far are the first candidates, in list
\* order; no error leaves searchMovieLinks; when it has returned, either
\* html is the usable body of the candidate fetched last and the result is
\* made of that body's links alone, or every candidate was fetched, none
\* was usable, and the result is the empty list.
C20_State ==
    /\ Len(tsFetched) <= Len(Candidates)
    /\ tsFetched = SubSeq(Candidates, 1, Len(tsFetched))
    /\ tsPc \in {"idle", "await", "done"}
    /\ tsPc = "await" => tsIndex = Len(tsFetched) /\ fpc # "idle"
    /\ tsPc = "done" =>
          /\ tsReturned # NoValue
          /\ tsIndex = Len(tsFetched)
          /\ \/ /\ tsHtml = NoValue
                /\ tsFetched = Candidates
                /\ tsReturned[1] = <<>>
             \/ /\ tsHtml # NoValue
                /\ tsHtml[1].len >= MinBodyLength
                /\ tsReturned[1] =
                      Slice(SelectSeq(EndpointExtractLinks(tsHtml[1], BaseUrl), LooksLikeMovie),
                            0, tsMax)

\* The candidate in flight was usable: ok, and a body of 200 or more.
C20_Usable == fpc = "returned" /\ fvalue # NoValue /\ fvalue[1].len >= MinBodyLength

\* A candidate is fetched only at the call or when the one before it has
\* thrown or was unusable, and then it is the next of the list; a usable
\* response ends the search with its body as html and no further fetch;
\* after the return nothing is fetched.
C20_Step ==
    /\ tsFetched' # tsFetched =>
          /\ tsFetched' = Append(tsFetched, Candidates[Len(tsFetched) + 1])
          /\ \/ tsPc = "idle"
             \/ tsPc = "await" /\ fpc \in {"returned", "threw"} /\ ~C20_Usable
    /\ (tsPc = "await" /\ fpc \in {"returned", "threw"} /\ ~C20_Usable
           /\ Len(tsFetched) < Len(Candidates) /\ tsFetched' = tsFetched)
          => UNCHANGED vars
    /\ (tsPc = "await" /\ C20_Usable)
          => \/ UNCHANGED vars
             \/ /\ tsPc' = "done"
                /\ tsHtml' = fvalue
                /\ tsFetched' = tsFetched
    /\ tsPc = "done" => UNCHANGED vars

\* C20: the search-endpoint variant tries its four candidates one at a time
\* in list order, skips a candidate that throws or is unusable, stops
\* fetching at the first usable response and extracts the links from that
\* response only, and returns the empty list, without an error, when no
\* candidate is usable.
C20_Candidates == [](C20_State) /\ [][C20_Step]_vars

\* Two candidates were skipped, the third was usable, and its links were
\* returned.
C20_Witness ==
    /\ tsPc = "done"
    /\ Len(tsFetched) = 3
    /\ tsHtml # NoValue
    /\ Len(tsReturned[1]) = 2

====
